---- MODULE Spec2Model ----
(***************************************************************************)
(* A model of heredity.py (exact inference by enumeration over a pedigree) *)
(* and tictactoe.py (minimax over the 3x3 board).                          *)
(*                                                                         *)
(* Probabilities are modelled as exact rationals.  The tables of PROBS are *)
(* hundredths, so every value the program computes is a decimal fraction;  *)
(* numerators and denominators are unbounded naturals, kept as sequences   *)
(* of four-digit limbs, least significant first, without leading zero      *)
(* limbs.  The rounding of Python's floats is not modelled.                *)
(***************************************************************************)
EXTENDS Integers, Sequences, FiniteSets, TLC

VARIABLES people, order, probabilities, pc, i, j, k, calls, p, total, world, board, agent

vars == <<people, order, probabilities, pc, i, j, k, calls, p, total, world, board, agent>>

(***************************************************************************)
(* Unbounded naturals                                                      *)
(***************************************************************************)
Limb(n) == n % 10000
Carry(n) == n \div 10000

RECURSIVE AddC(_, _, _)
AddC(x, y, c) ==
    IF x = <<>> /\ y = <<>> THEN (IF c = 0 THEN <<>> ELSE <<c>>)
    ELSE LET a == IF x = <<>> THEN 0 ELSE Head(x)
             b == IF y = <<>> THEN 0 ELSE Head(y)
             s == a + b + c
         IN  <<Limb(s)>> \o AddC(IF x = <<>> THEN <<>> ELSE Tail(x),
                                 IF y = <<>> THEN <<>> ELSE Tail(y), Carry(s))

BigAdd(x, y) == AddC(x, y, 0)

RECURSIVE MulC(_, _, _)
MulC(x, m, c) ==
    IF x = <<>> THEN (IF c = 0 THEN <<>> ELSE <<Limb(c)>> \o MulC(<<>>, m, Carry(c)))
    ELSE LET s == Head(x) * m + c
         IN  <<Limb(s)>> \o MulC(Tail(x), m, Carry(s))

\* x times the small natural m (m at most 10000)
BigMulSmall(x, m) == IF m = 0 THEN <<>> ELSE MulC(x, m, 0)

BigShift(x) == IF x = <<>> THEN <<>> ELSE <<0>> \o x

RECURSIVE BigMul(_, _)
BigMul(x, y) ==
    IF x = <<>> \/ y = <<>> THEN <<>>
    ELSE BigAdd(BigMulSmall(y, Head(x)), BigShift(BigMul(Tail(x), y)))

RECURSIVE BigLess(_, _)
BigLess(x, y) ==
    IF Len(x) # Len(y) THEN Len(x) < Len(y)
    ELSE IF x = <<>> THEN FALSE
    ELSE LET n == Len(x)
         IN  IF x[n] # y[n] THEN x[n] < y[n]
             ELSE BigLess(SubSeq(x, 1, n - 1), SubSeq(y, 1, n - 1))

BigLeq(x, y) == x = y \/ BigLess(x, y)

BigZero == <<>>
BigOne == <<1>>
BigOfSmall(n) == IF n = 0 THEN <<>> ELSE MulC(<<1>>, n, 0)

(***************************************************************************)
(* Exact rationals [n |-> numerator, d |-> denominator], d > 0             *)
(***************************************************************************)
Rat(n, d) == [n |-> n, d |-> d]
RatZero == Rat(BigZero, BigOne)
RatOne == Rat(BigOne, BigOne)

RatAdd(x, y) ==
    IF x.d = y.d THEN Rat(BigAdd(x.n, y.n), x.d)
    ELSE Rat(BigAdd(BigMul(x.n, y.d), BigMul(y.n, x.d)), BigMul(x.d, y.d))

RatMulSmall(x, m, unit) == Rat(BigMulSmall(x.n, m), BigMulSmall(x.d, unit))

\* x / y for y > 0
RatDiv(x, y) ==
    IF x.d = y.d THEN Rat(x.n, y.n)
    ELSE Rat(BigMul(x.n, y.d), BigMul(x.d, y.n))

RatEq(x, y) == BigMul(x.n, y.d) = BigMul(y.n, x.d)
RatLeq(x, y) == BigLeq(BigMul(x.n, y.d), BigMul(y.n, x.d))
RatIsZero(x) == x.n = BigZero
RatPositive(x) == x.n # BigZero

(***************************************************************************)
(* heredity.py: data                                                       *)
(***************************************************************************)
MaxPeople == 3

None == "None"
Ghost == "Ghost"
NameList == <<"Harry", "James", "Lily", "Molly", "Arthur">>

\* the literals 1 and 0.5 of the transmission terms, in hundredths
One == 100
Half == 50

\* PROBS, in hundredths
PROBS ==
    [gene |-> [g \in 0..2 |-> CASE g = 2 -> 1 [] g = 1 -> 3 [] g = 0 -> 96],
     trait |-> [g \in 0..2 |->
                  CASE g = 2 -> [t \in BOOLEAN |-> IF t THEN 65 ELSE 35]
                    [] g = 1 -> [t \in BOOLEAN |-> IF t THEN 56 ELSE 44]
                    [] g = 0 -> [t \in BOOLEAN |-> IF t THEN 1 ELSE 99]],
     mutation |-> 1]

\* The rows of a CSV file: the first n names, the parents fields of a
\* pedigree shape, the trait fields drawn from "1", "0" and blank.
Founders(n) == [x \in 1..n |-> <<"", "">>]
Shapes(n) ==
    {Founders(n)}
    \cup (IF n >= 3 THEN {[Founders(n) EXCEPT ![1] = <<NameList[3], NameList[2]>>]} ELSE {})
    \cup (IF n >= 2 THEN {[Founders(n) EXCEPT ![1] = <<NameList[2], Ghost>>],
                          [Founders(n) EXCEPT ![1] = <<"", NameList[2]>>]} ELSE {})

Row(x, parents, t) ==
    [name |-> NameList[x], mother |-> parents[1], father |-> parents[2], trait |-> t]

CsvFiles ==
    UNION {{[x \in 1..n |-> Row(x, sh[x], tr[x])] :
                sh \in Shapes(n), tr \in [1..n -> {"1", "0", ""}]} : n \in 0..MaxPeople}

BlankTraitFiles == {rows \in CsvFiles : \A x \in 1..Len(rows) : rows[x].trait = ""}

\* people is the dict in insertion order: a sequence of records with distinct names
load_data(rows) ==
    [x \in 1..Len(rows) |->
        [name |-> rows[x].name,
         mother |-> IF rows[x].mother = "" THEN None ELSE rows[x].mother,
         father |-> IF rows[x].father = "" THEN None ELSE rows[x].father,
         trait |-> IF rows[x].trait = "1" THEN "True"
                   ELSE IF rows[x].trait = "0" THEN "False" ELSE None]]

NamesOf(ppl) == {ppl[x].name : x \in 1..Len(ppl)}
Person(ppl, name) == ppl[CHOOSE x \in 1..Len(ppl) : ppl[x].name = name]

\* The iteration orders of a set of names: list(s) lists the members of s in
\* the order the run's hashing gives them.
RECURSIVE Reverse(_)
Reverse(s) == IF s = <<>> THEN <<>> ELSE Reverse(Tail(s)) \o <<Head(s)>>
KeyOrder(ppl) == [x \in 1..Len(ppl) |-> ppl[x].name]
Orders(ppl) == {KeyOrder(ppl), Reverse(KeyOrder(ppl))}

ListOf(ord, s) == SelectSeq(ord, LAMBDA e : e \in s)

(***************************************************************************)
(* heredity.py: powerset                                                   *)
(***************************************************************************)
RECURSIVE Prepend(_, _)
Prepend(x, ss) ==
    IF ss = <<>> THEN <<>> ELSE <<(<<x>> \o Head(ss))>> \o Prepend(x, Tail(ss))

\* itertools.combinations(l, r), in its order
RECURSIVE combinations(_, _)
combinations(l, r) ==
    IF r = 0 THEN << <<>> >>
    ELSE IF Len(l) < r THEN <<>>
    ELSE Prepend(Head(l), combinations(Tail(l), r - 1)) \o combinations(Tail(l), r)

RECURSIVE chain(_, _)
chain(l, r) ==
    IF r > Len(l) THEN <<>> ELSE combinations(l, r) \o chain(l, r + 1)

Range(s) == {s[x] : x \in 1..Len(s)}

\* mutant: range(len(s)) for range(len(s) + 1), the subset of all of s left out
powerset_short(ord, s) ==
    LET l == ListOf(ord, s)
        c == chain(l, 0)
    IN  [x \in 1..(Len(c) - 1) |-> Range(c[x])]

powerset(ord, s) ==
    LET l == ListOf(ord, s)
        c == chain(l, 0)
    IN  [x \in 1..Len(c) |-> Range(c[x])]

(***************************************************************************)
(* heredity.py: joint_probability                                          *)
(***************************************************************************)
num_genes_of(person, one_gene, two_genes) ==
    IF person \in one_gene THEN 1 ELSE IF person \in two_genes THEN 2 ELSE 0

\* mutant: a parent with two copies passes the gene on with the mutation
\* probability, a parent with none with its complement
parent_prob_swapped(parent, one_gene, two_genes) ==
    IF parent \in one_gene THEN Half
    ELSE IF parent \in two_genes THEN PROBS.mutation
    ELSE One - PROBS.mutation

\* mutant: a parent that is no key of people taken to carry one copy
parent_prob_unknown_half(parent, one_gene, two_genes) ==
    IF parent \in one_gene \/ (parent # None /\ parent \notin NamesOf(people)) THEN Half
    ELSE IF parent \in two_genes THEN One - PROBS.mutation
    ELSE PROBS.mutation

\* mother_prob, father_prob: the conditional expression on a parent field,
\* in hundredths.  The field is only tested for membership in the two sets.
parent_prob(parent, one_gene, two_genes) ==
    IF parent \in one_gene THEN Half
    ELSE IF parent \in two_genes THEN One - PROBS.mutation
    ELSE PROBS.mutation

\* gene_prob as <<numerator, denominator>>
gene_prob(data, num_genes, one_gene, two_genes) ==
    IF data.mother = None /\ data.father = None
    THEN <<PROBS.gene[num_genes], One>>
    ELSE LET mother_prob == parent_prob(data.mother, one_gene, two_genes)
             father_prob == parent_prob(data.father, one_gene, two_genes)
         IN  IF num_genes = 0
             THEN <<(One - mother_prob) * (One - father_prob), One * One>>
             ELSE IF num_genes = 1
             THEN <<mother_prob * (One - father_prob) + (One - mother_prob) * father_prob,
                    One * One>>
             ELSE <<mother_prob * father_prob, One * One>>

\* mutant: the trait table read at no copies, whatever the gene count
trait_prob_row0(num_genes, has_trait) == <<PROBS.trait[0][has_trait], One>>

trait_prob(num_genes, has_trait) == <<PROBS.trait[num_genes][has_trait], One>>

\* mutant: the factor of a person added to the running value, not multiplied in
RECURSIVE joint_loop_adds(_, _, _, _, _, _)
joint_loop_adds(ppl, x, probability, one_gene, two_genes, have_trait) ==
    IF x > Len(ppl) THEN probability
    ELSE LET data == ppl[x]
             num_genes == num_genes_of(data.name, one_gene, two_genes)
             has_trait == data.name \in have_trait
             g == gene_prob(data, num_genes, one_gene, two_genes)
             t == trait_prob(num_genes, has_trait)
         IN  joint_loop_adds(ppl, x + 1,
                             RatAdd(probability,
                                    Rat(BigOfSmall(g[1] * t[1]), BigOfSmall(g[2] * t[2]))),
                             one_gene, two_genes, have_trait)

\* the loop over people.items(), from index x on, with the running product
RECURSIVE joint_loop(_, _, _, _, _, _)
joint_loop(ppl, x, probability, one_gene, two_genes, have_trait) ==
    IF x > Len(ppl) THEN probability
    ELSE LET data == ppl[x]
             num_genes == num_genes_of(data.name, one_gene, two_genes)
             has_trait == data.name \in have_trait
             g == gene_prob(data, num_genes, one_gene, two_genes)
             t == trait_prob(num_genes, has_trait)
         IN  joint_loop(ppl, x + 1,
                        RatMulSmall(RatMulSmall(probability, g[1], g[2]), t[1], t[2]),
                        one_gene, two_genes, have_trait)

joint_probability(ppl, one_gene, two_genes, have_trait) ==
    joint_loop(ppl, 1, RatOne, one_gene, two_genes, have_trait)

(***************************************************************************)
(* heredity.py: update, normalize                                          *)
(***************************************************************************)
ZeroStore(names) ==
    [person \in names |-> [gene |-> [g \in 0..2 |-> RatZero],
                           trait |-> [t \in BOOLEAN |-> RatZero]]]

\* mutant: the gene bucket assigned with =, not added to with +=
update_assigns(probs, one_gene, two_genes, have_trait, pr) ==
    [person \in DOMAIN probs |->
        LET num_genes == num_genes_of(person, one_gene, two_genes)
        IN  [gene |-> [probs[person].gene EXCEPT ![num_genes] = pr],
             trait |-> [t \in BOOLEAN |->
                          RatAdd(probs[person].trait[t],
                                 IF t = (person \in have_trait) THEN pr ELSE RatZero)]]]

\* mutant: the trait added to both trait buckets
update_both_traits(probs, one_gene, two_genes, have_trait, pr) ==
    [person \in DOMAIN probs |->
        LET num_genes == num_genes_of(person, one_gene, two_genes)
        IN  [gene |-> [probs[person].gene EXCEPT ![num_genes] = RatAdd(@, pr)],
             trait |-> [t \in BOOLEAN |-> RatAdd(probs[person].trait[t], pr)]]]

update(probs, one_gene, two_genes, have_trait, pr) ==
    [person \in DOMAIN probs |->
        LET num_genes == num_genes_of(person, one_gene, two_genes)
        IN  [gene |-> [probs[person].gene EXCEPT ![num_genes] = RatAdd(@, pr)],
             trait |-> [t \in BOOLEAN |->
                          RatAdd(probs[person].trait[t],
                                 IF t = (person \in have_trait) THEN pr ELSE RatZero)]]]

\* sum(d.values()): 0 + the values in the dict's order
gene_sum_of(dist) == RatAdd(RatAdd(RatAdd(RatZero, dist[2]), dist[1]), dist[0])
trait_sum_of(dist) == RatAdd(RatAdd(RatZero, dist[TRUE]), dist[FALSE])

\* mutant: the trait buckets divided by the sum of the gene buckets' first two
normalize_partial_sum(probs) ==
    [person \in DOMAIN probs |->
        LET gene_sum == RatAdd(RatAdd(RatZero, probs[person].gene[2]), probs[person].gene[1])
            trait_sum == trait_sum_of(probs[person].trait)
        IN  [gene |-> IF RatPositive(gene_sum)
                      THEN [g \in 0..2 |-> RatDiv(probs[person].gene[g], gene_sum)]
                      ELSE probs[person].gene,
             trait |-> IF RatPositive(trait_sum)
                       THEN [t \in BOOLEAN |-> RatDiv(probs[person].trait[t], trait_sum)]
                       ELSE probs[person].trait]]

normalize(probs) ==
    [person \in DOMAIN probs |->
        LET gene_sum == gene_sum_of(probs[person].gene)
            trait_sum == trait_sum_of(probs[person].trait)
        IN  [gene |-> IF RatPositive(gene_sum)
                      THEN [g \in 0..2 |-> RatDiv(probs[person].gene[g], gene_sum)]
                      ELSE probs[person].gene,
             trait |-> IF RatPositive(trait_sum)
                       THEN [t \in BOOLEAN |-> RatDiv(probs[person].trait[t], trait_sum)]
                       ELSE probs[person].trait]]

(***************************************************************************)
(* heredity.py: main                                                       *)
(***************************************************************************)
names == NamesOf(people)

\* mutant: only a person observed with the trait and left out of the set fails
fails_evidence_true_only(ppl, have_trait) ==
    \E x \in 1..Len(ppl) :
        /\ ppl[x].trait = "True"
        /\ ppl[x].name \notin have_trait

fails_evidence(ppl, have_trait) ==
    \E x \in 1..Len(ppl) :
        /\ ppl[x].trait # None
        /\ ppl[x].trait # (IF ppl[x].name \in have_trait THEN "True" ELSE "False")

Call(one_gene, two_genes, have_trait, pr) ==
    [one_gene |-> one_gene, two_genes |-> two_genes, have_trait |-> have_trait, p |-> pr]

NoGame == <<>>

InitMain ==
    /\ \E rows \in CsvFiles : people = load_data(rows)
    /\ order \in Orders(people)
    /\ probabilities = ZeroStore(names)
    /\ pc = "trait"
    /\ i = 1 /\ j = 1 /\ k = 1
    /\ calls = <<>>
    /\ p = RatZero
    /\ total = RatZero
    /\ world = Call({}, {}, {}, RatZero)
    /\ board = NoGame
    /\ agent = None

\* the head of the loop over powerset(names): a set that violates the evidence
SkipTraitSet ==
    /\ pc = "trait"
    /\ i <= Len(powerset(order, names))
    /\ fails_evidence(people, powerset(order, names)[i])
    /\ i' = i + 1
    /\ UNCHANGED <<people, order, probabilities, pc, j, k, calls, p, total, world, board, agent>>

EnterTraitSet ==
    /\ pc = "trait"
    /\ i <= Len(powerset(order, names))
    /\ ~fails_evidence(people, powerset(order, names)[i])
    /\ pc' = "gene"
    /\ j' = 1 /\ k' = 1
    /\ UNCHANGED <<people, order, probabilities, i, calls, p, total, world, board, agent>>

\* one pass of the innermost loop body, and the step to the next position
ScoreWorld ==
    /\ pc = "gene"
    /\ \E outer \in {powerset(order, names)} :
       \E inner \in {powerset(order, names \ outer[j])} :
       \E pr \in {joint_probability(people, outer[j], inner[k], outer[i])} :
         LET have_trait == outer[i]
             one_gene == outer[j]
             two_genes == inner[k]
         IN  /\ p' = pr
             /\ probabilities' = update(probabilities, one_gene, two_genes, have_trait, pr)
             /\ calls' = Append(calls, Call(one_gene, two_genes, have_trait, pr))
             /\ total' = RatAdd(total, pr)
             /\ IF k < Len(inner)
                THEN k' = k + 1 /\ UNCHANGED <<pc, i, j>>
                ELSE IF j < Len(outer)
                THEN j' = j + 1 /\ k' = 1 /\ UNCHANGED <<pc, i>>
                ELSE pc' = "trait" /\ i' = i + 1 /\ UNCHANGED <<j, k>>
    /\ UNCHANGED <<people, order, world, board, agent>>

Normalize ==
    /\ pc = "trait"
    /\ i > Len(powerset(order, names))
    /\ probabilities' = normalize(probabilities)
    /\ pc' = "done"
    /\ UNCHANGED <<people, order, i, j, k, calls, p, total, world, board, agent>>

NextMain == SkipTraitSet \/ EnterTraitSet \/ ScoreWorld \/ Normalize

SpecMain == InitMain /\ [][NextMain]_vars

(***************************************************************************)
(* joint_probability called on its own: any three subsets of the people    *)
(***************************************************************************)
InitJoint ==
    /\ \E rows \in BlankTraitFiles : people = load_data(rows)
    /\ order = KeyOrder(people)
    /\ probabilities = ZeroStore(names)
    /\ pc = "joint"
    /\ i = 1 /\ j = 1 /\ k = 1
    /\ calls = <<>>
    /\ p = RatZero
    /\ total = RatZero
    /\ world = Call({}, {}, {}, RatZero)
    /\ board = NoGame
    /\ agent = None

CallJoint ==
    /\ pc = "joint"
    /\ \E one_gene \in SUBSET names, two_genes \in SUBSET names, have_trait \in SUBSET names :
       \E pr \in {joint_probability(people, one_gene, two_genes, have_trait)} :
          /\ world' = Call(one_gene, two_genes, have_trait, pr)
          /\ p' = pr
    /\ pc' = "scored"
    /\ UNCHANGED <<people, order, probabilities, i, j, k, calls, total, board, agent>>

NextJoint == CallJoint

SpecJoint == InitJoint /\ [][NextJoint]_vars

(***************************************************************************)
(* The network, stated apart from the program: the factor of a person in   *)
(* a world is P(gene count | parents) * P(trait | gene count).             *)
(***************************************************************************)
Copies(name, w) ==
    IF name \in w.one_gene THEN 1 ELSE IF name \in w.two_genes THEN 2 ELSE 0

\* the probability, in hundredths, that a parent with c copies passes the gene on
Transmission(c) == CASE c = 1 -> 50 [] c = 2 -> 100 - PROBS.mutation [] c = 0 -> PROBS.mutation

\* P(0) = (1-m)(1-f), P(1) = m(1-f) + (1-m)f, P(2) = m f, in ten-thousandths
Convolution(c, m, f) ==
    CASE c = 0 -> (100 - m) * (100 - f)
      [] c = 1 -> m * (100 - f) + (100 - m) * f
      [] c = 2 -> m * f

IsFounder(data) == data.mother = None /\ data.father = None

GeneFactor(data, w) ==
    IF IsFounder(data)
    THEN Rat(BigOfSmall(PROBS.gene[Copies(data.name, w)]), BigOfSmall(100))
    ELSE Rat(BigOfSmall(Convolution(Copies(data.name, w),
                                    Transmission(Copies(data.mother, w)),
                                    Transmission(Copies(data.father, w)))),
             BigOfSmall(10000))

TraitFactor(data, w) ==
    Rat(BigOfSmall(PROBS.trait[Copies(data.name, w)][data.name \in w.have_trait]),
        BigOfSmall(100))

RatMul(x, y) == Rat(BigMul(x.n, y.n), BigMul(x.d, y.d))

RECURSIVE ProductOver(_, _, _)
ProductOver(S, ppl, w) ==
    IF S = {} THEN RatOne
    ELSE LET name == CHOOSE name \in S : TRUE
         IN  RatMul(RatMul(GeneFactor(Person(ppl, name), w), TraitFactor(Person(ppl, name), w)),
                    ProductOver(S \ {name}, ppl, w))

\* a child whose mother is in the dataset with two copies and whose father
\* is in the dataset with none
TwoAndNone(data, w) ==
    /\ data.mother \in names /\ data.father \in names
    /\ Copies(data.mother, w) = 2 /\ Copies(data.father, w) = 0

\* C3: joint_probability returns the product over the people of gene factor
\* times trait factor: the prior for a founder, the convolution of the two
\* parents' transmission probabilities for a child; for a child of a
\* two-copy and a no-copy parent the gene factor is 0.0099, 0.9802, 0.0099;
\* for the empty dataset the result is 1.
C3_JointIsProduct ==
    pc = "scored" =>
      /\ RatEq(world.p, ProductOver(names, people, world))
      /\ \A x \in 1..Len(people) :
            TwoAndNone(people[x], world) =>
               gene_prob(people[x], Copies(people[x].name, world),
                         world.one_gene, world.two_genes)
                 = <<CASE Copies(people[x].name, world) = 0 -> 99
                       [] Copies(people[x].name, world) = 1 -> 9802
                       [] Copies(people[x].name, world) = 2 -> 99, 10000>>
      /\ people = <<>> => world.p = RatOne

C3_Witness ==
    /\ pc = "scored"
    /\ \E x \in 1..Len(people) :
          TwoAndNone(people[x], world) /\ Copies(people[x].name, world) = 1

\* C4: the value joint_probability returns is at least 0 and at most 1,
\* for any three subsets of the people.
C4_JointInUnitInterval ==
    pc = "scored" =>
      /\ \A x \in 1..Len(people) :
            /\ gene_prob(people[x], Copies(people[x].name, world),
                         world.one_gene, world.two_genes)[1] >= 0
            /\ trait_prob(Copies(people[x].name, world),
                          people[x].name \in world.have_trait)[1] >= 0
      /\ RatLeq(RatZero, world.p)
      /\ RatLeq(world.p, RatOne)

\* the two gene sets overlap and the child's parents are both in the dataset
C4_Witness ==
    /\ pc = "scored"
    /\ world.one_gene \cap world.two_genes # {}
    /\ \E x \in 1..Len(people) : people[x].mother \in names /\ people[x].father \in names
    /\ RatPositive(world.p)

(***************************************************************************)
(* Claims about main                                                       *)
(***************************************************************************)
WorldOf(c) == [one_gene |-> c.one_gene, two_genes |-> c.two_genes, have_trait |-> c.have_trait]
Scored == {WorldOf(calls[x]) : x \in 1..Len(calls)}

\* the trait sets the observations allow
Consistent(ppl) ==
    {S \in SUBSET NamesOf(ppl) :
        \A x \in 1..Len(ppl) : /\ ppl[x].trait = "True" => ppl[x].name \in S
                               /\ ppl[x].trait = "False" => ppl[x].name \notin S}

\* every assignment of 0, 1 or 2 copies to every person, for a trait set
WorldsOf(S) ==
    {[one_gene |-> {n \in names : g[n] = 1}, two_genes |-> {n \in names : g[n] = 2},
      have_trait |-> S] : g \in [names -> 0..2]}

RECURSIVE Power(_, _)
Power(b, e) == IF e = 0 THEN 1 ELSE b * Power(b, e - 1)

AtLoopHead == pc \in {"trait", "done"}

\* C1: main hands every world that agrees with the evidence to
\* joint_probability and update exactly once: the two gene sets of a call
\* are disjoint, no world is scored twice, and when the loop has ended each
\* trait set the evidence allows has been scored with each of the 3^n
\* assignments of gene counts, and nothing else has.
C1_EveryWorldOnce ==
    AtLoopHead =>
      /\ \A x \in 1..Len(calls) : calls[x].one_gene \cap calls[x].two_genes = {}
      /\ Cardinality(Scored) = Len(calls)
      /\ pc = "done" =>
            /\ Scored = UNION {WorldsOf(S) : S \in Consistent(people)}
            /\ \A S \in Consistent(people) :
                  Cardinality({x \in 1..Len(calls) : calls[x].have_trait = S})
                    = Power(3, Len(people))

C1_Witness ==
    /\ pc = "done"
    /\ Len(people) = MaxPeople
    /\ Cardinality(Consistent(people)) > 1
    /\ Len(calls) = Cardinality(Consistent(people)) * Power(3, Len(people))

Contradicts(data, S) ==
    \/ data.trait = "True" /\ data.name \notin S
    \/ data.trait = "False" /\ data.name \in S

\* C2: no world that contradicts an observed trait is ever scored or
\* accumulated: the trait bucket of the contradicted value of a person whose
\* trait is observed holds 0 throughout; and people whose trait is unknown
\* do not restrict the trait sets that are scored.
C2_NoContradictingWorld ==
    /\ \A x \in 1..Len(people) :
          /\ people[x].trait = "True" => RatIsZero(probabilities[people[x].name].trait[FALSE])
          /\ people[x].trait = "False" => RatIsZero(probabilities[people[x].name].trait[TRUE])
    /\ AtLoopHead =>
          \A y \in 1..Len(calls) : \A x \in 1..Len(people) :
             ~Contradicts(people[x], calls[y].have_trait)
    /\ pc = "done" =>
          {calls[y].have_trait : y \in 1..Len(calls)} = Consistent(people)

C2_Witness ==
    /\ pc = "done"
    /\ \E x \in 1..Len(people) : people[x].trait = "False"
    /\ \E x \in 1..Len(people) : people[x].trait = "True"
    /\ \E x \in 1..Len(people) :
          /\ people[x].trait = None
          /\ RatPositive(probabilities[people[x].name].trait[TRUE])
          /\ RatPositive(probabilities[people[x].name].trait[FALSE])

\* one founder, observed with the trait
SingleFounderTrue ==
    /\ Len(people) = 1
    /\ IsFounder(people[1])
    /\ people[1].trait = "True"

\* C6: for a single founder observed with the trait the run ends with the
\* trait distribution {true: 1, false: 0} and the gene distribution
\* 0.96*0.01, 0.03*0.56, 0.01*0.65 for 0, 1, 2 copies, each over their sum.
C6_SingleFounderPosterior ==
    (pc = "done" /\ SingleFounderTrue) =>
       LET dist == probabilities[people[1].name]
           sum == 96 * 1 + 3 * 56 + 1 * 65
       IN  /\ dist.trait[TRUE].n = dist.trait[TRUE].d
           /\ dist.trait[FALSE].n = BigZero
           /\ RatEq(dist.gene[0], Rat(BigOfSmall(96 * 1), BigOfSmall(sum)))
           /\ RatEq(dist.gene[1], Rat(BigOfSmall(3 * 56), BigOfSmall(sum)))
           /\ RatEq(dist.gene[2], Rat(BigOfSmall(1 * 65), BigOfSmall(sum)))

C6_Witness == pc = "done" /\ SingleFounderTrue /\ Len(calls) = 3

\* a mother or father field names somebody who is no row of the file
HasAbsentParent ==
    \E x \in 1..Len(people) :
       \/ people[x].mother \notin names \cup {None}
       \/ people[x].father \notin names \cup {None}

SumsToOne(dist) ==
    /\ gene_sum_of(dist.gene).n = gene_sum_of(dist.gene).d
    /\ trait_sum_of(dist.trait).n = trait_sum_of(dist.trait).d

\* C8 as claimed: with a parent field that names an absent person the run
\* does not complete.
C8_AbsentParentFails == HasAbsentParent => pc # "done"

\* C8 as amended: with a parent field that names an absent person every
\* world the loop comes to is scored, with the absent parent counted as
\* carrying no copy, and the run ends with distributions that sum to 1.
C8_AbsentParentCompletes ==
    HasAbsentParent =>
      /\ pc = "gene" =>
            /\ i \in 1..Len(powerset(order, names))
            /\ j \in 1..Len(powerset(order, names))
            /\ k \in 1..Len(powerset(order, names \ powerset(order, names)[j]))
      /\ calls # <<>> => RatEq(p, ProductOver(names, people, calls[Len(calls)]))
      /\ pc = "done" => \A n \in names : SumsToOne(probabilities[n])

C8_Witness ==
    /\ HasAbsentParent
    /\ pc = "done"
    /\ calls # <<>>

\* the calls cs[x], x running from `from` to `to` (upwards or downwards),
\* applied to store
RECURSIVE Accumulate(_, _, _, _)
Accumulate(cs, from, to, store) ==
    LET next == update(store, cs[from].one_gene, cs[from].two_genes,
                       cs[from].have_trait, cs[from].p)
    IN  IF from = to THEN next
        ELSE Accumulate(cs, IF from < to THEN from + 1 ELSE from - 1, to, next)

\* two accumulators summed bucket by bucket
Merge(s1, s2) ==
    [n \in DOMAIN s1 |->
        [gene |-> [g \in 0..2 |-> RatAdd(s1[n].gene[g], s2[n].gene[g])],
         trait |-> [t \in BOOLEAN |-> RatAdd(s1[n].trait[t], s2[n].trait[t])]]]

SameStore(s1, s2) ==
    /\ DOMAIN s1 = DOMAIN s2
    /\ \A n \in DOMAIN s1 :
          /\ \A g \in 0..2 : RatEq(s1[n].gene[g], s2[n].gene[g])
          /\ \A t \in BOOLEAN : RatEq(s1[n].trait[t], s2[n].trait[t])

Backwards ==
    IF calls = <<>> THEN ZeroStore(names)
    ELSE Accumulate(calls, Len(calls), 1, ZeroStore(names))
InTwoParts ==
    LET h == Len(calls) \div 2
    IN  IF h = 0 THEN probabilities
        ELSE Merge(Accumulate(calls, h + 1, Len(calls), ZeroStore(names)),
                   Accumulate(calls, 1, h, ZeroStore(names)))

LoopEnded == pc = "trait" /\ i > Len(powerset(order, names))

\* C10: the update calls main has made give the same store when they are
\* applied in the opposite order, or split over two accumulators that are
\* then summed bucket by bucket; and so the same normalized distributions.
C10_OrderIndependent ==
    /\ LoopEnded =>
          /\ SameStore(probabilities, Backwards)
          /\ SameStore(probabilities, InTwoParts)
    /\ pc = "done" =>
          /\ SameStore(probabilities, normalize(Backwards))
          /\ SameStore(probabilities, normalize(InTwoParts))

C10_Witness ==
    /\ pc = "done"
    /\ Len(people) = MaxPeople
    /\ Len(calls) > Power(3, Len(people))
    /\ \E x \in 1..Len(people) : ~IsFounder(people[x])

(***************************************************************************)
(* update and normalize called on their own: any sets, any p of PValues,   *)
(* normalize after any number of updates                                   *)
(***************************************************************************)
MaxCalls == 2

PValues == {Rat(BigOfSmall(v), BigOfSmall(One * One)) : v \in {0, 99, 9802}}

InitUpdate ==
    /\ \E rows \in BlankTraitFiles :
          /\ Len(rows) < MaxPeople
          /\ \A x \in 1..Len(rows) : rows[x].mother = "" /\ rows[x].father = ""
          /\ people = load_data(rows)
    /\ order = KeyOrder(people)
    /\ probabilities = ZeroStore(names)
    /\ pc = "acc"
    /\ i = 1 /\ j = 1 /\ k = 1
    /\ calls = <<>>
    /\ p = RatZero
    /\ total = RatZero
    /\ world = Call({}, {}, {}, RatZero)
    /\ board = NoGame
    /\ agent = None

CallUpdate ==
    /\ pc = "acc"
    /\ i <= MaxCalls
    /\ \E one_gene \in SUBSET names, two_genes \in SUBSET names, have_trait \in SUBSET names,
          pr \in PValues :
          /\ probabilities' = update(probabilities, one_gene, two_genes, have_trait, pr)
          /\ world' = Call(one_gene, two_genes, have_trait, pr)
          /\ p' = pr
          /\ total' = RatAdd(total, pr)
    /\ i' = i + 1
    /\ UNCHANGED <<people, order, pc, j, k, calls, board, agent>>

CallNormalize ==
    /\ pc = "acc"
    /\ probabilities' = normalize(probabilities)
    /\ pc' = "normalized"
    /\ UNCHANGED <<people, order, i, j, k, calls, p, total, world, board, agent>>

NextUpdate == CallUpdate \/ CallNormalize

SpecUpdate == InitUpdate /\ [][NextUpdate]_vars

Buckets(dist) == {dist.gene[g] : g \in 0..2} \cup {dist.trait[t] : t \in BOOLEAN}

\* C9: a call of update adds p, for every person, to the gene bucket of the
\* person's gene count in the world and to the trait bucket of the person's
\* membership in have_trait, and leaves every other bucket as it was; so no
\* bucket decreases, and the gene buckets and the trait buckets of every
\* person each sum to the total of the p applied so far.
C9_UpdateAddsToOneBucket ==
    [][(pc = "acc" /\ pc' = "acc") =>
         \A n \in names :
            /\ \A g \in 0..2 :
                  /\ g = Copies(n, world') =>
                        RatEq(probabilities'[n].gene[g],
                              RatAdd(probabilities[n].gene[g], world'.p))
                  /\ g # Copies(n, world') =>
                        probabilities'[n].gene[g] = probabilities[n].gene[g]
                  /\ RatLeq(probabilities[n].gene[g], probabilities'[n].gene[g])
            /\ \A t \in BOOLEAN :
                  /\ t = (n \in world'.have_trait) =>
                        RatEq(probabilities'[n].trait[t],
                              RatAdd(probabilities[n].trait[t], world'.p))
                  /\ t # (n \in world'.have_trait) =>
                        probabilities'[n].trait[t] = probabilities[n].trait[t]
                  /\ RatLeq(probabilities[n].trait[t], probabilities'[n].trait[t])
            /\ RatEq(gene_sum_of(probabilities'[n].gene), total')
            /\ RatEq(trait_sum_of(probabilities'[n].trait), total')]_vars

\* two calls with p above 0 that met different buckets of the same person
C9_Witness ==
    /\ pc = "acc"
    /\ i = MaxCalls + 1
    /\ \E n \in names :
          /\ RatPositive(probabilities[n].gene[1])
          /\ RatPositive(probabilities[n].gene[2])
          /\ RatPositive(probabilities[n].trait[TRUE])
          /\ RatPositive(probabilities[n].trait[FALSE])

\* C5: normalize leaves, for every person and each of the two distributions:
\* when the sum of the buckets was above 0, every bucket at its old value
\* divided by that sum, so that the buckets sum to 1; when the sum was 0, the
\* distribution as it was, all 0; and nothing is divided by 0.
C5_NormalizeRescales ==
    [][(pc = "acc" /\ pc' = "normalized") =>
         \A n \in names :
            LET gene_sum == gene_sum_of(probabilities[n].gene)
                trait_sum == trait_sum_of(probabilities[n].trait)
            IN  /\ \A v \in Buckets(probabilities'[n]) : v.d # BigZero
                /\ IF RatPositive(gene_sum)
                   THEN /\ \A g \in 0..2 :
                              RatEq(RatMul(probabilities'[n].gene[g], gene_sum),
                                    probabilities[n].gene[g])
                        /\ RatEq(gene_sum_of(probabilities'[n].gene), RatOne)
                   ELSE /\ probabilities'[n].gene = probabilities[n].gene
                        /\ \A g \in 0..2 : RatIsZero(probabilities'[n].gene[g])
                /\ IF RatPositive(trait_sum)
                   THEN /\ \A t \in BOOLEAN :
                              RatEq(RatMul(probabilities'[n].trait[t], trait_sum),
                                    probabilities[n].trait[t])
                        /\ RatEq(trait_sum_of(probabilities'[n].trait), RatOne)
                   ELSE /\ probabilities'[n].trait = probabilities[n].trait
                        /\ \A t \in BOOLEAN : RatIsZero(probabilities'[n].trait[t])]_vars

\* a normalized store with two gene buckets of a person above 0
C5_Witness ==
    /\ pc = "normalized"
    /\ \E n \in names :
          /\ RatPositive(probabilities[n].gene[0])
          /\ RatPositive(probabilities[n].gene[2])
          /\ ~RatEq(probabilities[n].gene[0], probabilities[n].gene[2])
          /\ RatEq(gene_sum_of(probabilities[n].gene), RatOne)

(***************************************************************************)
(* tictactoe.py                                                            *)
(*                                                                         *)
(* The board is kept flat: cell (i, j) of the list of rows is element      *)
(* 3 i + j + 1 of a sequence of nine marks.                                *)
(***************************************************************************)
X == "X"
O == "O"
EMPTY == None

\* math.inf: above every utility
Inf == 2

\* best_action before any action was taken as best
NoAction == <<>>

Cells == <<<<0, 0>>, <<0, 1>>, <<0, 2>>, <<1, 0>>, <<1, 1>>, <<1, 2>>,
           <<2, 0>>, <<2, 1>>, <<2, 2>>>>
CellSet == {Cells[x] : x \in 1..9}
Idx(a) == 3 * a[1] + a[2] + 1

initial_state == [x \in 1..9 |-> EMPTY]

count_empty(b) == Len(SelectSeq(b, LAMBDA m : m = EMPTY))

player(b) == IF count_empty(b) % 2 = 0 THEN O ELSE X

actions(b) == {a \in CellSet : b[Idx(a)] = EMPTY}

\* defined for the actions the board allows; the two raises are not reached
result(b, action) == [b EXCEPT ![Idx(action)] = player(b)]

\* the rows, the columns and the two diagonals, as cells of the flat board
Lines ==
    {<<Idx(<<x, 0>>), Idx(<<x, 1>>), Idx(<<x, 2>>)>> : x \in 0..2}
    \cup {<<Idx(<<0, x>>), Idx(<<1, x>>), Idx(<<2, x>>)>> : x \in 0..2}
    \cup {<<Idx(<<0, 0>>), Idx(<<1, 1>>), Idx(<<2, 2>>)>>,
          <<Idx(<<0, 2>>), Idx(<<1, 1>>), Idx(<<2, 0>>)>>}

wins(b, pl) == \E l \in Lines : b[l[1]] = pl /\ b[l[2]] = pl /\ b[l[3]] = pl

winner(b) == IF wins(b, X) THEN X ELSE IF wins(b, O) THEN O ELSE None

terminal(b) == winner(b) # None \/ \A x \in 1..9 : b[x] # EMPTY

utility(b) == IF winner(b) = X THEN 1 ELSE IF winner(b) = O THEN -1 ELSE 0

\* "for action in actions(board)": the members of the set in the run's order
ActionList(b, ord) == SelectSeq(ord, LAMBDA a : b[Idx(a)] = EMPTY)

RECURSIVE max_value(_, _), min_value(_, _)

\* the loop of max_value over the actions l, vals[x] being the value
\* min_value returned for result(board, l[x])
\* mutant: the comparison of max_value's loop turned around
RECURSIVE max_loop_less(_, _, _, _, _)
max_loop_less(l, vals, x, v, best_action) ==
    IF x > Len(l) THEN <<v, best_action>>
    ELSE IF vals[x] < v THEN max_loop_less(l, vals, x + 1, vals[x], l[x])
    ELSE max_loop_less(l, vals, x + 1, v, best_action)

RECURSIVE max_loop(_, _, _, _, _)
max_loop(l, vals, x, v, best_action) ==
    IF x > Len(l) THEN <<v, best_action>>
    ELSE IF vals[x] > v THEN max_loop(l, vals, x + 1, vals[x], l[x])
    ELSE max_loop(l, vals, x + 1, v, best_action)

RECURSIVE min_loop(_, _, _, _, _)
min_loop(l, vals, x, v, best_action) ==
    IF x > Len(l) THEN <<v, best_action>>
    ELSE IF vals[x] < v THEN min_loop(l, vals, x + 1, vals[x], l[x])
    ELSE min_loop(l, vals, x + 1, v, best_action)

max_value(b, ord) ==
    IF terminal(b) THEN <<utility(b), NoAction>>
    ELSE LET l == ActionList(b, ord)
             vals == [x \in 1..Len(l) |-> min_value(result(b, l[x]), ord)[1]] \o <<>>
         IN  max_loop(l, vals, 1, -Inf, NoAction)

min_value(b, ord) ==
    IF terminal(b) THEN <<utility(b), NoAction>>
    ELSE LET l == ActionList(b, ord)
             vals == [x \in 1..Len(l) |-> max_value(result(b, l[x]), ord)[1]] \o <<>>
         IN  min_loop(l, vals, 1, Inf, NoAction)

minimax(b, ord) ==
    IF player(b) = X THEN max_value(b, ord)[2] ELSE min_value(b, ord)[2]

\* A game: the side `agent` moves as minimax says, the other side (both
\* sides when agent is None) makes any legal move.
InitGame ==
    /\ board = initial_state
    /\ agent \in {None, X, O}
    /\ order \in {Cells, Reverse(Cells)}
    /\ people = <<>>
    /\ probabilities = ZeroStore({})
    /\ pc = "play"
    /\ i = 0 /\ j = 0 /\ k = 0
    /\ calls = <<>>
    /\ p = RatZero
    /\ total = RatZero
    /\ world = Call({}, {}, {}, RatZero)

AgentMove ==
    /\ pc = "play"
    /\ ~terminal(board)
    /\ player(board) = agent
    /\ board' = result(board, minimax(board, order))
    /\ UNCHANGED <<people, order, probabilities, pc, i, j, k, calls, p, total, world, agent>>

OtherMove ==
    /\ pc = "play"
    /\ ~terminal(board)
    /\ player(board) # agent
    /\ \E a \in actions(board) : board' = result(board, a)
    /\ UNCHANGED <<people, order, probabilities, pc, i, j, k, calls, p, total, world, agent>>

NextGame == AgentMove \/ OtherMove

SpecGame == InitGame /\ [][NextGame]_vars

(***************************************************************************)
(* The game of tic-tac-toe, stated apart from the program: X moves first,  *)
(* the sides alternate, three marks in a line win, a full board ends the   *)
(* game.  GameValue is the value of a position under optimal play by both  *)
(* sides (1: X wins, 0: draw, -1: O wins), tabulated from the full boards  *)
(* backwards.                                                              *)
(***************************************************************************)
Marked(b, m) == {x \in 1..9 : b[x] = m}
Mover(b) == IF Cardinality(Marked(b, X)) = Cardinality(Marked(b, O)) THEN X ELSE O
Place(b, x) == [b EXCEPT ![x] = Mover(b)]
Won(b, m) ==
    \E l \in {<<1, 2, 3>>, <<4, 5, 6>>, <<7, 8, 9>>, <<1, 4, 7>>, <<2, 5, 8>>, <<3, 6, 9>>,
              <<1, 5, 9>>, <<3, 5, 7>>} : \A x \in 1..3 : b[l[x]] = m
Over(b) == Won(b, X) \/ Won(b, O) \/ Marked(b, EMPTY) = {}
Outcome(b) == IF Won(b, X) THEN 1 ELSE IF Won(b, O) THEN -1 ELSE 0

Positions(e) ==
    {b \in [1..9 -> {X, O, EMPTY}] :
        /\ Cardinality(Marked(b, EMPTY)) = e
        /\ Cardinality(Marked(b, X)) - Cardinality(Marked(b, O)) \in {0, 1}}

Largest(S) == CHOOSE m \in S : \A n \in S : n <= m
Smallest(S) == CHOOSE m \in S : \A n \in S : n >= m

RECURSIVE GameValues(_)
GameValues(e) ==
    IF e = 0 THEN [b \in Positions(0) |-> Outcome(b)] @@ <<>>
    ELSE LET deeper == GameValues(e - 1)
         IN  deeper @@
             [b \in Positions(e) |->
                IF Over(b) THEN Outcome(b)
                ELSE LET next == {deeper[Place(b, x)] : x \in Marked(b, EMPTY)}
                     IN  IF Mover(b) = X THEN Largest(next) ELSE Smallest(next)]

GameValueTable == GameValues(9)
GameValue(b) == GameValueTable[b]

\* C7: on every board that is not final and is reached by legal moves in
\* turn, minimax returns an empty cell, and the position it leads to has
\* the value of the board under optimal play (the largest value any move
\* reaches when X is to move, the smallest when O is); and the side that
\* moves as minimax says, from the initial board on, never loses.
C7_MinimaxOptimal ==
    pc = "play" =>
      /\ (agent = None /\ ~Over(board)) =>
            \E a \in {minimax(board, order)} :
               /\ a \in CellSet
               /\ board[Idx(a)] = EMPTY
               /\ GameValue(Place(board, Idx(a))) = GameValue(board)
      /\ agent = X => ~Won(board, O)
      /\ agent = O => ~Won(board, X)

C7_Witness ==
    /\ pc = "play"
    /\ agent = X
    /\ Marked(board, EMPTY) = {}
    /\ ~Won(board, X)

====
